---- MODULE Spec2Model ----
(***************************************************************************)
(* A model of github_clone_all_repos.py: main, the repository lister       *)
(* (get_public_repos), the clone executor (run_git_clone, clone_repo) and   *)
(* the orchestrator (clone_repos) with its ThreadPoolExecutor.              *)
(*                                                                         *)
(* Three specifications share the variables and the actions:               *)
(*   Spec      clone_repos called on any list of repositories, with the    *)
(*             pool's workers running clone_repo concurrently;             *)
(*   SpecList  main from its start: the token, the recursive listing and   *)
(*             the call of clone_repos up to its directory precondition;   *)
(*   SpecExec  run_git_clone called with any retry budget.                 *)
(***************************************************************************)
EXTENDS Naturals, Integers, Sequences, FiniteSets, TLC

VARIABLES
    pc,           \* where the main thread is
    raised,       \* the exception that ended the main thread ("none": none)
    pat_token,    \* main's token / get_public_repos' pat_token
    stack,        \* get_public_repos' active frames: each frame's repo_urls
    fetched,      \* history: the requests sent and what came back
    repos,        \* the list main hands to clone_repos
    dirExists,    \* os.path.exists(directory)
    dirAtCall,    \* history: dirExists when clone_repos was called
    madeBy,       \* history: who created the directory
    n_threads,    \* clone_repos' n_threads
    submitted,    \* history: the tasks in the order executor.submit took them
    queue,        \* the executor's work queue
    status,       \* per task: where its future / its clone_repo call is
    budget,       \* per task: the max_retries run_git_clone was called with
    max_retries,  \* per task: run_git_clone's local max_retries
    attempts,     \* history, per task: the subprocess.run calls started
    delays,       \* history, per task: the time.sleep(5) calls
    outcomes,     \* history, per task: how each finished attempt ended
    exc,          \* per task: the exception its future holds
    repo_name,    \* per task: the name clone_repo derived from the URL
    snapshot,     \* as_completed: the futures that were finished when it started
                  \* and are not yielded yet
    finished_futures, \* as_completed's waiter: the futures that finished since
                  \* it started and are not yielded yet, oldest first
    doneOrder,    \* history: the finished tasks the second loop has not taken
                  \* yet, in the order they finished
    handled,      \* history: the tasks in the order the second loop took them
    logged        \* history: the tasks whose exception line 153 printed

vars == <<pc, raised, pat_token, stack, fetched, repos, dirExists, dirAtCall,
          madeBy, n_threads, submitted, queue, status, budget, max_retries,
          attempts, delays, outcomes, exc, repo_name, snapshot,
          finished_futures, doneOrder, handled, logged>>

mainVars == <<pc, raised>>
listVars == <<pat_token, stack, fetched, repos>>
dirVars == <<dirExists, dirAtCall, madeBy>>
taskVars == <<status, budget, max_retries, attempts, delays, outcomes, exc, repo_name>>
poolVars == <<n_threads, submitted, queue>>
awaitVars == <<snapshot, handled, logged>>

(***************************************************************************)
(* Bounds of the model.                                                    *)
(***************************************************************************)
MaxRepos == 3
MaxThreads == 2
MaxPages == 2
MaxListed == 3
MaxBudget == 3
MaxCalls == 2
MaxPieces == 3

(***************************************************************************)
(* Program constants.                                                      *)
(***************************************************************************)
DefaultMaxRetries == 5

None == "None"
NoExc == [kind |-> "none", repo |-> <<>>, retries |-> 0]

Tasks == DOMAIN status
Finished(t) == status[t] \in {"succeeded", "failed"}
Busy == {t \in Tasks : status[t] \in {"called", "cloning", "sleeping"}}
Cloning == {t \in Tasks : status[t] = "cloning"}
Range(s) == {s[i] : i \in DOMAIN s}
Without(s, t) == LET Other(x) == x # t IN SelectSeq(s, Other)
RECURSIVE Flatten(_)
Flatten(ss) == IF ss = <<>> THEN <<>> ELSE Head(ss) \o Flatten(Tail(ss))

(***************************************************************************)
(* clone_repo: the name of the repository. A string is the sequence of its  *)
(* characters.                                                              *)
(***************************************************************************)
Slash == <<"/">>
Git == <<".", "g", "i", "t">>

\* The URLs of the model: up to MaxPieces of these pieces, one after another.
Pieces == {Slash, Git, <<"a">>, <<".">>}
Urls == {Flatten(ps) : ps \in UNION {[1..k -> Pieces] : k \in 0..MaxPieces}}

\* The i-th URL of a batch whose URLs play no part: /a.git, /aa.git, ...
BatchUrl(i) == Slash \o [j \in 1..i |-> "a"] \o Git

\* str.split("/")[-1]: what follows the last "/", the whole string when it
\* has none.
RECURSIVE LastSegment(_)
LastSegment(s) ==
    IF \A i \in DOMAIN s : s[i] # "/" THEN s
    ELSE LastSegment(Tail(s))

\* str.split("/")[0]: what precedes the first "/".
RECURSIVE FirstSegment(_)
FirstSegment(s) ==
    IF s = <<>> \/ Head(s) = "/" THEN <<>>
    ELSE <<Head(s)>> \o FirstSegment(Tail(s))

\* str.replace(old, ""): from the left, every occurrence of old is left out.
RECURSIVE Remove(_, _)
Remove(s, old) ==
    IF s = <<>> THEN <<>>
    ELSE IF Len(s) >= Len(old) /\ SubSeq(s, 1, Len(old)) = old
         THEN Remove(SubSeq(s, Len(old) + 1, Len(s)), old)
         ELSE <<Head(s)>> \o Remove(Tail(s), old)

RepoNameOfFirstSegment(repo) == Remove(FirstSegment(repo), Git)
\* lines 104-106: repo.split("/")[-1].replace(".git", "")
RepoName(repo) == Remove(LastSegment(repo), Git)

\* clone_repos' directory.
Directory == <<"d">>

\* os.path.join(a, b): b when it is absolute, else a and b with one "/"
\* between them (none when a is empty or ends with "/").
PathJoin(a, b) ==
    IF b # <<>> /\ Head(b) = "/" THEN b
    ELSE IF a = <<>> \/ a[Len(a)] = "/" THEN a \o b
         ELSE a \o Slash \o b

\* line 76: the path git clone is told to write: os.path.join(directory,
\* repo_name) and "/".
Target(t) == PathJoin(Directory, repo_name[t]) \o Slash

(***************************************************************************)
(* run_git_clone: the retry loop of one clone.                              *)
(***************************************************************************)
LoopConditionOffByOne(m) == m > 1
\* line 73: while max_retries > 0
LoopCondition(m) == m > 0

\* line 92: the error raised when the loop ends, built from repo_name and
\* from max_retries as it is then
CloneError(t) ==
    [kind |-> "RuntimeError", repo |-> repo_name[t], retries |-> max_retries[t]]

\* The future of task t is done and no waiter is told.
NotifyWaiterLost(t) ==
    /\ finished_futures' = finished_futures
    /\ doneOrder' = Append(doneOrder, t)
\* The future of task t gets its result or its exception: a waiter that
\* as_completed installed (pc = "await") is told.
NotifyWaiter(t) ==
    /\ finished_futures' = IF pc = "await" THEN Append(finished_futures, t)
                           ELSE finished_futures
    /\ doneOrder' = Append(doneOrder, t)

\* The loop's test, from the call or after a delay: one more attempt starts
\* (lines 76-81) or the loop ends and line 92 raises.
LoopHead(t) ==
    IF LoopCondition(max_retries[t])
    THEN /\ status' = [status EXCEPT ![t] = "cloning"]
         /\ attempts' = [attempts EXCEPT ![t] = @ + 1]
         /\ UNCHANGED <<exc, finished_futures, doneOrder>>
    ELSE /\ status' = [status EXCEPT ![t] = "failed"]
         /\ exc' = [exc EXCEPT ![t] = CloneError(t)]
         /\ NotifyWaiter(t)
         /\ UNCHANGED attempts

\* run_git_clone is entered (line 107 calls it, line 73 tests).
RunGitClone(t) ==
    /\ status[t] = "called"
    /\ LoopHead(t)
    /\ UNCHANGED <<budget, max_retries, delays, outcomes, repo_name>>
    /\ UNCHANGED <<mainVars, listVars, dirVars, poolVars, awaitVars>>

AttemptSucceedsNoReturn(t) ==
    /\ status[t] = "cloning"
    /\ outcomes' = [outcomes EXCEPT ![t] = Append(@, "ok")]
    /\ attempts' = [attempts EXCEPT ![t] = @ + 1]
    /\ UNCHANGED <<status, finished_futures, doneOrder, budget, max_retries, delays, exc,
                   repo_name>>
    /\ UNCHANGED <<mainVars, listVars, dirVars, poolVars, awaitVars>>
\* lines 81-85: git clone exits with 0 and run_git_clone returns.
AttemptSucceeds(t) ==
    /\ status[t] = "cloning"
    /\ outcomes' = [outcomes EXCEPT ![t] = Append(@, "ok")]
    /\ status' = [status EXCEPT ![t] = "succeeded"]
    /\ NotifyWaiter(t)
    /\ UNCHANGED <<budget, max_retries, attempts, delays, exc, repo_name>>
    /\ UNCHANGED <<mainVars, listVars, dirVars, poolVars, awaitVars>>

\* lines 81, 87-90: git clone exits with another code, check=True raises
\* CalledProcessError; the handler counts the retry down and sleeps.
AttemptFails(t) ==
    /\ status[t] = "cloning"
    /\ outcomes' = [outcomes EXCEPT ![t] = Append(@, "err")]
    /\ max_retries' = [max_retries EXCEPT ![t] = @ - 1]
    /\ delays' = [delays EXCEPT ![t] = @ + 1]
    /\ status' = [status EXCEPT ![t] = "sleeping"]
    /\ UNCHANGED <<budget, attempts, exc, repo_name, finished_futures, doneOrder>>
    /\ UNCHANGED <<mainVars, listVars, dirVars, poolVars, awaitVars>>

\* line 90 returns: back to the loop's test.
WakeUp(t) ==
    /\ status[t] = "sleeping"
    /\ LoopHead(t)
    /\ UNCHANGED <<budget, max_retries, delays, outcomes, repo_name>>
    /\ UNCHANGED <<mainVars, listVars, dirVars, poolVars, awaitVars>>

(***************************************************************************)
(* main and get_public_repos.                                               *)
(***************************************************************************)
\* Python's truth of a token: None and the empty string are false.
Truthy(tok) == tok \notin {None, ""}

\* The descriptors the listing endpoint may return: A is a fork, B is
\* public and no fork, C is private and no fork, D is a private fork.
Table ==
    { [clone_url |-> "A", fork |-> TRUE, private |-> FALSE],
      [clone_url |-> "B", fork |-> FALSE, private |-> FALSE],
      [clone_url |-> "C", fork |-> FALSE, private |-> TRUE],
      [clone_url |-> "D", fork |-> TRUE, private |-> TRUE] }

Pages == UNION {[1..k -> Table] : k \in 0..MaxListed}

\* What requests.get may bring: a JSON array of descriptors, with or without
\* a next link; or a failure: no connection, a body that is not JSON, or the
\* JSON object ({"message": ...}) of a non-success status.
Responses ==
    [kind : {"ok"}, body : Pages, next : BOOLEAN]
       \cup {[kind |-> k, body |-> <<>>, next |-> FALSE] :
                k \in {"network_error", "not_json", "error_object"}}

\* line 41: the Authorization header is sent for a token that is true.
SendsAuthorization(tok) == Truthy(tok)

\* The descriptors of the pages received so far.
Listed == [i \in DOMAIN fetched |-> Len(fetched[i].resp.body)]
RECURSIVE Sum(_)
Sum(s) == IF s = <<>> THEN 0 ELSE Head(s) + Sum(Tail(s))

RaisesIgnoringStatus(resp) ==
    CASE resp.kind = "network_error" -> "ConnectionError"
      [] resp.kind = "not_json" -> "JSONDecodeError"
      [] OTHER -> "none"
\* lines 47-49: requests.get raises when there is no connection;
\* response.json() raises on a body that is not JSON; line 49 iterates over
\* the keys of an error object and indexes a string with "fork".
Raises(resp) ==
    CASE resp.kind = "network_error" -> "ConnectionError"
      [] resp.kind = "not_json" -> "JSONDecodeError"
      [] resp.kind = "error_object" -> "TypeError"
      [] OTHER -> "none"

KeepsForks(d) == TRUE
\* line 49: if not repo["fork"]
NotFork(d) == ~d.fork

\* line 50: if pat_token is None
FiltersPrivate(tok) == tok = None

KeepsPrivate(d) == TRUE
\* line 51: if not repo["private"]
NotPrivate(d) == ~d.private

\* lines 49-52: the clone URLs of one page.
RepoUrls(body, tok) ==
    LET noForks == SelectSeq(body, NotFork)
        visible == IF FiltersPrivate(tok) THEN SelectSeq(noForks, NotPrivate)
                   ELSE noForks
    IN  [i \in DOMAIN visible |-> visible[i].clone_url]

\* lines 173-180: main settles the token: the GH_TOKEN of the environment
\* for "#ENV", the first line of the file for a path, the argument itself
\* when it is None or empty.
MainToken ==
    /\ pc = "main"
    /\ \E token \in {None, "", "#ENV", "path"}, env \in {None, "", "tok"},
          exists \in BOOLEAN, line \in {"", "tok"} :
          IF Truthy(token)
          THEN IF token = "#ENV"
               THEN pat_token' = env /\ pc' = "get_public_repos" /\ UNCHANGED raised
               ELSE IF ~exists
                    THEN /\ pc' = "raised"
                         /\ raised' = "FileNotFoundError"
                         /\ UNCHANGED pat_token
                    ELSE /\ pat_token' = line
                         /\ pc' = "get_public_repos"
                         /\ UNCHANGED raised
          ELSE pat_token' = token /\ pc' = "get_public_repos" /\ UNCHANGED raised
    /\ UNCHANGED <<stack, fetched, repos>>
    /\ UNCHANGED <<dirVars, taskVars, poolVars, awaitVars, finished_futures, doneOrder>>

\* lines 41-57: one call of get_public_repos up to its recursive call: the
\* request, the filters, and the next link.
Request ==
    /\ pc = "get_public_repos"
    /\ \E resp \in Responses :
          /\ resp.next => Len(fetched) + 1 < MaxPages
          /\ Sum(Listed) + Len(resp.body) <= MaxListed
          /\ fetched' = Append(fetched, [auth |-> SendsAuthorization(pat_token),
                                         resp |-> resp])
          /\ IF Raises(resp) # "none"
             THEN /\ pc' = "raised"
                  /\ raised' = Raises(resp)
                  /\ UNCHANGED stack
             ELSE /\ stack' = Append(stack, RepoUrls(resp.body, pat_token))
                  /\ pc' = IF resp.next THEN "get_public_repos" ELSE "return"
                  /\ UNCHANGED raised
    /\ UNCHANGED <<pat_token, repos>>
    /\ UNCHANGED <<dirVars, taskVars, poolVars, awaitVars, finished_futures, doneOrder>>

ExtendInFront(own, rest) == rest \o own
\* line 57: repo_urls += (what the recursive call returned)
Extend(own, rest) == own \o rest

\* lines 57-59: a call returns its repo_urls: to the call that made it, which
\* adds them to its own, or to main (line 182), which calls clone_repos.
ReturnFrame ==
    /\ pc = "return"
    /\ LET n == Len(stack) IN
          IF n > 1
          THEN /\ stack' = [SubSeq(stack, 1, n - 1) EXCEPT
                               ![n - 1] = Extend(@, stack[n])]
               /\ UNCHANGED <<pc, repos>>
          ELSE /\ stack' = <<>>
               /\ repos' = stack[1]
               /\ pc' = "clone_repos"
    /\ UNCHANGED <<raised, pat_token, fetched>>
    /\ UNCHANGED <<dirVars, taskVars, poolVars, awaitVars, finished_futures, doneOrder>>

(***************************************************************************)
(* clone_repos: the directory precondition.                                 *)
(***************************************************************************)
CloneReposNoCheck ==
    /\ pc = "clone_repos"
    /\ pc' = "makedirs"
    /\ UNCHANGED <<raised, listVars, dirVars, taskVars, poolVars, awaitVars, finished_futures, doneOrder>>
\* lines 125-126: the existence check.
CloneReposCheck ==
    /\ pc = "clone_repos"
    /\ IF dirExists
       THEN pc' = "raised" /\ raised' = "FileExistsError"
       ELSE pc' = "makedirs" /\ UNCHANGED raised
    /\ UNCHANGED <<listVars, dirVars, taskVars, poolVars, awaitVars, finished_futures, doneOrder>>

\* line 128: os.makedirs(directory, exist_ok=True) creates the directory, or
\* finds it and goes on.
MakeDirs ==
    /\ pc = "makedirs"
    /\ dirExists' = TRUE
    /\ madeBy' = IF dirExists THEN madeBy ELSE "self"
    /\ pc' = "dispatch"
    /\ UNCHANGED <<raised, dirAtCall, listVars, taskVars, poolVars, awaitVars, finished_futures, doneOrder>>

\* Another process creates the same path between line 125 and line 128.
OtherProcessCreates ==
    /\ pc = "makedirs"
    /\ ~dirExists
    /\ dirExists' = TRUE
    /\ madeBy' = "other"
    /\ UNCHANGED <<mainVars, dirAtCall, listVars, taskVars, poolVars, awaitVars, finished_futures, doneOrder>>

(***************************************************************************)
(* clone_repos: the pool.                                                   *)
(***************************************************************************)
NextRepoFromEnd == Len(repos) - Len(submitted)
\* lines 132-133: the for loop takes the items of repos from the first on.
NextRepo == Len(submitted) + 1

\* lines 132-140: one turn of the first loop: executor.submit queues
\* clone_repo(repo, directory) and the loop sleeps a second.
Dispatch ==
    /\ pc = "dispatch"
    /\ Len(submitted) < Len(repos)
    /\ LET t == NextRepo IN
          /\ submitted' = Append(submitted, t)
          /\ queue' = Append(queue, t)
          /\ status' = [status EXCEPT ![t] = "queued"]
    /\ UNCHANGED <<budget, max_retries, attempts, delays, outcomes, exc, repo_name>>
    /\ UNCHANGED <<mainVars, listVars, dirVars, n_threads, awaitVars, finished_futures, doneOrder>>

FreeWorkerWhileSleeping == Cardinality(Cloning) < n_threads
\* line 130: max_workers=n_threads: a thread takes a work item only when fewer
\* than n_threads items are being run.
FreeWorker == Cardinality(Busy) < n_threads

\* A pool thread takes the oldest queued item and calls clone_repo
\* (lines 103-107), which calls run_git_clone with the default max_retries.
StartTask ==
    /\ queue # <<>>
    /\ FreeWorker
    /\ LET t == Head(queue) IN
          /\ queue' = Tail(queue)
          /\ status' = [status EXCEPT ![t] = "called"]
          /\ budget' = [budget EXCEPT ![t] = DefaultMaxRetries]
          /\ max_retries' = [max_retries EXCEPT ![t] = DefaultMaxRetries]
          /\ repo_name' = [repo_name EXCEPT ![t] = RepoName(repos[t])]
    /\ UNCHANGED <<attempts, delays, outcomes, exc>>
    /\ UNCHANGED <<mainVars, listVars, dirVars, n_threads, submitted, awaitVars, finished_futures, doneOrder>>

AsCompletedEarly ==
    /\ pc = "dispatch"
    /\ snapshot' = {t \in Tasks : Finished(t)}
    /\ pc' = "await"
    /\ UNCHANGED <<raised, finished_futures, doneOrder, handled, logged>>
    /\ UNCHANGED <<listVars, dirVars, taskVars, poolVars>>
\* lines 142-143: the first loop is over; as_completed starts and notes the
\* futures that are finished already.
AsCompleted ==
    /\ pc = "dispatch"
    /\ Len(submitted) = Len(repos)
    /\ snapshot' = {t \in Tasks : Finished(t)}
    /\ pc' = "await"
    /\ UNCHANGED <<raised, finished_futures, doneOrder, handled, logged>>
    /\ UNCHANGED <<listVars, dirVars, taskVars, poolVars>>

YieldsNewestFirst(t) ==
    \/ t \in snapshot
    \/ /\ snapshot = {}
       /\ finished_futures # <<>>
       /\ t = finished_futures[Len(finished_futures)]
\* as_completed yields the futures of its snapshot first, in the order of a
\* set, and then each other future when it finishes.
Yields(t) ==
    \/ t \in snapshot
    \/ /\ snapshot = {}
       /\ finished_futures # <<>>
       /\ t = Head(finished_futures)

\* The future as_completed has yielded leaves the collection it came from.
Yielded(t) ==
    /\ snapshot' = snapshot \ {t}
    /\ finished_futures' = Without(finished_futures, t)
    /\ doneOrder' = Without(doneOrder, t)

HandleReraises(t) ==
    /\ pc = "await"
    /\ Yields(t)
    /\ Yielded(t)
    /\ handled' = Append(handled, t)
    /\ IF status[t] = "failed"
       THEN pc' = "raised" /\ raised' = exc[t].kind /\ UNCHANGED logged
       ELSE UNCHANGED <<pc, raised, logged>>
    /\ UNCHANGED <<listVars, dirVars, taskVars, poolVars>>
\* lines 142-153: one turn of the second loop: future.result() returns, or
\* raises the task's exception, which line 152 catches and line 153 prints.
Handle(t) ==
    /\ pc = "await"
    /\ Yields(t)
    /\ Yielded(t)
    /\ handled' = Append(handled, t)
    /\ logged' = IF status[t] = "failed" THEN logged \cup {t} ELSE logged
    /\ UNCHANGED <<mainVars, listVars, dirVars, taskVars, poolVars>>

AllYieldedButOne == Len(handled) + 1 >= Len(repos)
\* as_completed is exhausted when it has yielded every future it was given.
AllYielded == Len(handled) = Len(submitted)

\* line 130, leaving the with block: shutdown(wait=True) joins the threads;
\* clone_repos returns.
ExitPool ==
    /\ pc = "await"
    /\ AllYielded
    /\ Busy = {} /\ queue = <<>>
    /\ pc' = "returned"
    /\ UNCHANGED <<raised, listVars, dirVars, taskVars, poolVars, awaitVars, finished_futures, doneOrder>>

(***************************************************************************)
(* Spec: clone_repos called with any list, any directory, any n_threads.    *)
(***************************************************************************)
NoTasks(n, st, b) ==
    /\ status = [t \in 1..n |-> st]
    /\ budget = [t \in 1..n |-> b]
    /\ max_retries = [t \in 1..n |-> b]
    /\ attempts = [t \in 1..n |-> 0]
    /\ delays = [t \in 1..n |-> 0]
    /\ outcomes = [t \in 1..n |-> <<>>]
    /\ exc = [t \in 1..n |-> NoExc]
    /\ repo_name = [t \in 1..n |-> <<>>]

Init ==
    /\ pc = "clone_repos"
    /\ raised = "none"
    /\ pat_token = None
    /\ stack = <<>>
    /\ fetched = <<>>
    /\ \E n \in 0..MaxRepos : repos = [i \in 1..n |-> BatchUrl(i)]
    /\ dirExists \in BOOLEAN
    /\ dirAtCall = dirExists
    /\ madeBy = (IF dirExists THEN "other" ELSE "none")
    /\ n_threads \in 1..MaxThreads
    /\ submitted = <<>>
    /\ queue = <<>>
    /\ NoTasks(Len(repos), "unsubmitted", DefaultMaxRetries)
    /\ snapshot = {}
    /\ finished_futures = <<>>
    /\ doneOrder = <<>>
    /\ handled = <<>>
    /\ logged = {}

Next ==
    \/ CloneReposCheck
    \/ MakeDirs
    \/ OtherProcessCreates
    \/ Dispatch
    \/ StartTask
    \/ \E t \in Tasks : RunGitClone(t)
    \/ \E t \in Tasks : AttemptSucceeds(t)
    \/ \E t \in Tasks : AttemptFails(t)
    \/ \E t \in Tasks : WakeUp(t)
    \/ AsCompleted
    \/ \E t \in Tasks : Handle(t)
    \/ ExitPool

Spec == Init /\ [][Next]_vars

(***************************************************************************)
(* SpecFair: Spec where the thread of clone_repos and the threads of the    *)
(* pool are scheduled fairly and every git clone that runs ends. Nothing    *)
(* is asked of the other process.                                           *)
(***************************************************************************)
\* A step of the thread that called clone_repos.
MainThread ==
    \/ CloneReposCheck
    \/ MakeDirs
    \/ Dispatch
    \/ AsCompleted
    \/ \E t \in Tasks : Handle(t)
    \/ ExitPool

\* A step of the worker thread that runs task t; one of them is the end of
\* the git clone it waits for.
Worker(t) ==
    /\ t \in Tasks
    /\ \/ RunGitClone(t)
       \/ AttemptSucceeds(t)
       \/ AttemptFails(t)
       \/ WakeUp(t)

SpecFair == Init /\ [][Next]_vars /\ WF_vars(MainThread) /\ WF_vars(StartTask) /\ \A t \in 1..MaxRepos : WF_vars(Worker(t))

(***************************************************************************)
(* SpecExec: run_git_clone called with any retry budget.                    *)
(***************************************************************************)
InitExec ==
    /\ pc = "exec"
    /\ raised = "none"
    /\ pat_token = None
    /\ stack = <<>>
    /\ fetched = <<>>
    /\ repos = [i \in 1..MaxCalls |-> BatchUrl(i)]
    /\ dirExists = TRUE
    /\ dirAtCall = FALSE
    /\ madeBy = "self"
    /\ n_threads = MaxCalls
    /\ submitted = <<>>
    /\ queue = <<>>
    /\ status = [t \in 1..MaxCalls |-> "called"]
    /\ budget \in [1..MaxCalls -> 0..MaxBudget]
    /\ max_retries = budget
    /\ attempts = [t \in 1..MaxCalls |-> 0]
    /\ delays = [t \in 1..MaxCalls |-> 0]
    /\ outcomes = [t \in 1..MaxCalls |-> <<>>]
    /\ exc = [t \in 1..MaxCalls |-> NoExc]
    /\ repo_name = [t \in 1..MaxCalls |-> RepoName(repos[t])]
    /\ snapshot = {}
    /\ finished_futures = <<>>
    /\ doneOrder = <<>>
    /\ handled = <<>>
    /\ logged = {}

NextExec ==
    \/ \E t \in Tasks : RunGitClone(t)
    \/ \E t \in Tasks : AttemptSucceeds(t)
    \/ \E t \in Tasks : AttemptFails(t)
    \/ \E t \in Tasks : WakeUp(t)

SpecExec == InitExec /\ [][NextExec]_vars

(***************************************************************************)
(* SpecList: main from its start to clone_repos' directory precondition.    *)
(***************************************************************************)
InitList ==
    /\ pc = "main"
    /\ raised = "none"
    /\ pat_token = None
    /\ stack = <<>>
    /\ fetched = <<>>
    /\ repos = <<>>
    /\ dirExists \in BOOLEAN
    /\ dirAtCall = dirExists
    /\ madeBy = (IF dirExists THEN "other" ELSE "none")
    /\ n_threads \in 1..MaxThreads
    /\ submitted = <<>>
    /\ queue = <<>>
    /\ NoTasks(0, "unsubmitted", DefaultMaxRetries)
    /\ snapshot = {}
    /\ finished_futures = <<>>
    /\ doneOrder = <<>>
    /\ handled = <<>>
    /\ logged = {}

NextList ==
    \/ MainToken
    \/ Request
    \/ ReturnFrame
    \/ CloneReposCheck
    \/ MakeDirs
    \/ OtherProcessCreates

SpecList == InitList /\ [][NextList]_vars

(***************************************************************************)
(* SpecName: two tasks of a batch, of any two URLs, are taken by the pool   *)
(* and call clone_repo.                                                     *)
(***************************************************************************)
InitName ==
    /\ pc = "dispatch"
    /\ raised = "none"
    /\ pat_token = None
    /\ stack = <<>>
    /\ fetched = <<>>
    /\ repos \in [1..2 -> Urls]
    /\ dirExists = TRUE
    /\ dirAtCall = FALSE
    /\ madeBy = "self"
    /\ n_threads = 2
    /\ submitted = <<1, 2>>
    /\ queue = <<1, 2>>
    /\ NoTasks(2, "queued", DefaultMaxRetries)
    /\ snapshot = {}
    /\ finished_futures = <<>>
    /\ doneOrder = <<>>
    /\ handled = <<>>
    /\ logged = {}

NextName == StartTask

SpecName == InitName /\ [][NextName]_vars

(***************************************************************************)
(* The properties.                                                          *)
(***************************************************************************)
AllErr(s) == \A i \in DOMAIN s : s[i] = "err"
AllOk(s) == \A i \in DOMAIN s : s[i] = "ok"
HasOk(s) == \E i \in DOMAIN s : s[i] = "ok"
Url(u) == CHOOSE d \in Table : d.clone_url = u

\* C1: at most n_threads clone attempts execute at the same time, and a
\* submitted task that no thread has taken is in the queue and executes
\* nothing.
C1_ConcurrencyBound ==
    /\ Cardinality(Cloning) <= n_threads
    /\ \A t \in Tasks : t \in Range(queue) <=> status[t] = "queued"
    /\ \A t \in Range(submitted) : t \in Range(queue) \/ t \in Busy \/ Finished(t)

C1_Witness ==
    /\ Len(repos) > n_threads
    /\ Len(submitted) = Len(repos)
    /\ Cardinality(Cloning) = n_threads
    /\ n_threads = MaxThreads
    /\ queue # <<>>

\* C2: when clone_repos has returned, every task of the list was submitted,
\* has succeeded or has failed for good, and had its outcome taken by the
\* second loop; nothing is queued, being attempted or sleeping.
C2_ReturnsAfterAll ==
    pc = "returned" =>
        /\ queue = <<>>
        /\ Len(submitted) = Len(repos)
        /\ \A t \in Tasks :
              /\ t \in Range(submitted)
              /\ status[t] \in {"succeeded", "failed"}
              /\ t \in Range(handled)

C2_Witness ==
    /\ pc = "returned"
    /\ Len(repos) = MaxRepos
    /\ \E t, u \in Tasks : status[t] = "failed" /\ status[u] = "succeeded"

\* One repository's clone has failed at every attempt so far, and no attempt
\* of any other repository has failed.
OnlyFails(f) ==
    /\ outcomes[f] # <<>>
    /\ AllErr(outcomes[f])
    /\ \A t \in Tasks \ {f} : AllOk(outcomes[t])

\* C3: when one repository fails at every attempt and the others never fail,
\* no error leaves clone_repos and no other task fails; once clone_repos has
\* returned, every other repository has succeeded after one attempt, and the
\* one failure is the only one reported.
C3_Isolation ==
    \A f \in Tasks : OnlyFails(f) =>
        /\ pc # "raised" /\ raised = "none"
        /\ \A t \in Tasks \ {f} : status[t] # "failed"
        /\ pc = "returned" =>
              /\ status[f] = "failed"
              /\ \A t \in Tasks \ {f} : status[t] = "succeeded" /\ attempts[t] = 1
              /\ logged = {f}

C3_Witness ==
    /\ pc = "returned"
    /\ Len(repos) = MaxRepos
    /\ OnlyFails(1)
    /\ \A t \in Tasks \ {1} : status[t] = "succeeded"

\* C4: clone_repos called on a directory that exists raises FileExistsError
\* and has submitted no task and started no clone attempt.
C4_ExistingDirectory ==
    dirAtCall =>
        /\ pc \in {"clone_repos", "raised"}
        /\ pc = "raised" => raised = "FileExistsError"
        /\ submitted = <<>> /\ queue = <<>>
        /\ \A t \in Tasks : status[t] = "unsubmitted" /\ attempts[t] = 0

C4_Witness ==
    /\ dirAtCall
    /\ pc = "raised" /\ raised = "FileExistsError"
    /\ Len(repos) = MaxRepos

\* C5: run_git_clone called with a budget of R >= 1 makes at most R attempts;
\* with attempts 1..R-1 failed and attempt R successful it returns; it raises
\* only after exactly R attempts, all failed; and a delay lies between any
\* two consecutive attempts.
C5_Retry ==
    \A t \in Tasks : budget[t] >= 1 =>
        LET R == budget[t] IN
        /\ attempts[t] <= R
        /\ Len(outcomes[t]) <= attempts[t]
        /\ (Len(outcomes[t]) = R /\ AllErr(SubSeq(outcomes[t], 1, R - 1))
               /\ outcomes[t][R] = "ok") => status[t] = "succeeded"
        /\ status[t] = "failed" =>
              attempts[t] = R /\ Len(outcomes[t]) = R /\ AllErr(outcomes[t])
        /\ (Len(outcomes[t]) = R /\ AllErr(outcomes[t])) =>
              status[t] \in {"sleeping", "failed"}
        /\ attempts[t] >= 1 => delays[t] >= attempts[t] - 1
        /\ status[t] = "cloning" => delays[t] = attempts[t] - 1

C5_Witness ==
    \E t, u \in Tasks :
        /\ budget[t] >= 2 /\ budget[u] >= 2
        /\ status[t] = "succeeded" /\ attempts[t] = budget[t]
        /\ status[u] = "failed" /\ attempts[u] = budget[u]

\* C6: the error of a clone whose retries are exhausted names the repository
\* and the number of attempts that were made, and clone_repos catches it.
C6_ErrorCarriesAttempts ==
    \A t \in Tasks :
        /\ status[t] = "failed" =>
              /\ exc[t].kind = "RuntimeError"
              /\ exc[t].repo = repo_name[t]
              /\ exc[t].retries = attempts[t]
        /\ (status[t] = "failed" /\ t \in Range(handled)) =>
              t \in logged /\ raised = "none"

\* C7: after a successful attempt run_git_clone has returned: the success is
\* its last attempt, and no attempt and no delay follows it.
C7_SuccessIsFinal ==
    \A t \in Tasks : HasOk(outcomes[t]) =>
        LET n == Len(outcomes[t]) IN
        /\ status[t] = "succeeded"
        /\ outcomes[t][n] = "ok"
        /\ AllErr(SubSeq(outcomes[t], 1, n - 1))
        /\ attempts[t] = n
        /\ delays[t] = n - 1
        /\ max_retries[t] = budget[t] - (n - 1)

C7_Witness ==
    \E t \in Tasks :
        /\ status[t] = "succeeded"
        /\ attempts[t] = 1
        /\ max_retries[t] >= 2

\* A request of the listing has failed.
ListingFailed == \E i \in DOMAIN fetched : fetched[i].resp.kind # "ok"

C9_NoForks ==
    /\ \A i \in DOMAIN stack : \A j \in DOMAIN stack[i] : ~Url(stack[i][j]).fork
    /\ \A j \in DOMAIN repos : ~Url(repos[j]).fork

C9_Witness ==
    /\ pc = "clone_repos"
    /\ Len(fetched) = 2
    /\ \E i \in DOMAIN fetched : \E j \in DOMAIN fetched[i].resp.body :
          fetched[i].resp.body[j].fork /\ fetched[i].auth
    /\ \E i \in DOMAIN fetched : \E j \in DOMAIN fetched[i].resp.body :
          fetched[i].resp.body[j].fork /\ fetched[i].resp.body[j].private
    /\ repos # <<>>

\* The clone URLs of the descriptors received that are no forks and private.
PrivateReceived ==
    UNION {{fetched[i].resp.body[j].clone_url : j \in DOMAIN fetched[i].resp.body} :
              i \in DOMAIN fetched}
      \cap {d.clone_url : d \in {e \in Table : e.private /\ ~e.fork}}

\* C10: a listing whose requests carried no Authorization header returns no
\* private repository; a listing whose requests carried one returns the
\* private repositories received that are no forks.
C10_PrivateOnlyWhenAuthenticated ==
    pc = "clone_repos" =>
        /\ ~SendsAuthorization(pat_token) =>
              \A j \in DOMAIN repos : ~Url(repos[j]).private
        /\ SendsAuthorization(pat_token) => PrivateReceived \subseteq Range(repos)

\* The filtered clone URLs of each page received, in the order of the requests.
PageUrls == [i \in DOMAIN fetched |-> RepoUrls(fetched[i].resp.body, pat_token)]

\* C11: when get_public_repos has returned to main, every page but the last
\* carried a next link, each was requested once, and the list returned is the
\* filtered clone URLs of page 1, then of page 2, ..., each page's in its own
\* order; while the calls return, the frames still hold that list in pieces.
C11_Pagination ==
    /\ pc = "clone_repos" =>
          /\ \A i \in DOMAIN fetched :
                fetched[i].resp.kind = "ok" /\ (fetched[i].resp.next <=> i < Len(fetched))
          /\ repos = Flatten(PageUrls)
    /\ pc = "return" => Flatten(stack) = Flatten(PageUrls)

C11_Witness ==
    /\ pc = "clone_repos"
    /\ Len(fetched) = MaxPages
    /\ Len(repos) = MaxListed
    /\ repos[1] # repos[Len(repos)]
    /\ \A i \in DOMAIN fetched : PageUrls[i] # <<>>

\* C12: the tasks are submitted in the order of the input list, each item of
\* the list once: the i-th submission is the task of repos[i].
C12_SubmissionOrder ==
    /\ Len(submitted) <= Len(repos)
    /\ \A i \in DOMAIN submitted : submitted[i] = i
    /\ pc \in {"await", "returned"} => Len(submitted) = Len(repos)

C12_Witness ==
    /\ Len(repos) = MaxRepos
    /\ Len(submitted) = Len(repos)
    /\ pc = "dispatch"

\* The second loop takes the outcome of task t in this step.
Reports(t) == handled' = Append(handled, t)

\* C13: the outcome the second loop takes is always that of the task that
\* finished first among the tasks not taken yet.
C13_FirstFinishedFirstReported ==
    [][\A t \in Tasks : Reports(t) => t = Head(doneOrder)]_vars

\* C13, amended: the tasks that had finished when as_completed started are
\* taken first, in any order; after them, the outcome taken is always that of
\* the task that finished first among the tasks not taken yet.
C13_FirstFinishedAfterDispatch ==
    [][\A t \in Tasks : Reports(t) =>
          \/ t \in snapshot
          \/ snapshot = {} /\ t = Head(doneOrder)]_vars

C13_Witness ==
    /\ pc = "await"
    /\ snapshot = {}
    /\ handled # <<>>
    /\ Len(finished_futures) >= 2
    /\ finished_futures = doneOrder

\* The phase of the batch the main thread is in.
Phase ==
    CASE pc = "clone_repos" -> "NotStarted"
      [] pc = "makedirs" -> "Preparing"
      [] pc = "dispatch" -> "Dispatching"
      [] pc = "await" -> "Awaiting"
      [] pc = "returned" -> "Done"
      [] OTHER -> "Failed"

PhaseSteps ==
    { <<"NotStarted", "Preparing">>, <<"Preparing", "Dispatching">>,
      <<"Dispatching", "Awaiting">>, <<"Awaiting", "Done">>,
      <<"NotStarted", "Failed">> }

\* C15: the phase changes only by NotStarted -> Preparing -> Dispatching ->
\* Awaiting -> Done (or from NotStarted to the fatal end when the directory
\* exists); a task is submitted or a clone attempt started only when the
\* directory exists and the batch is dispatching or later; the second loop
\* starts only when every item of the list is submitted.
C15_PhaseOrder ==
    /\ [][Phase' # Phase => <<Phase, Phase'>> \in PhaseSteps]_vars
    /\ [](\A t \in Tasks : (status[t] # "unsubmitted" \/ attempts[t] > 0) =>
             /\ dirExists
             /\ Phase \in {"Dispatching", "Awaiting", "Done"})
    /\ [](Phase \in {"Awaiting", "Done"} => Len(submitted) = Len(repos))
    /\ [](Phase = "Done" => Len(handled) = Len(repos))

C15_Witness ==
    /\ Phase = "Done"
    /\ Len(repos) = MaxRepos
    /\ madeBy = "self"
    /\ \A t \in Tasks : attempts[t] >= 2

Sleeping == {t \in Tasks : status[t] = "sleeping"}

\* C16: the tasks that have started and not finished, those in a retry delay
\* included, are never more than n_threads; and a task is taken from the
\* queue only when, counting the sleeping tasks too, a worker is free.
C16_SlotHeldThroughRetries ==
    /\ [](Cardinality(Busy) <= n_threads)
    /\ [][\A t \in Tasks : (status[t] = "queued" /\ status'[t] = "called") =>
             Cardinality(Cloning) + Cardinality(Sleeping) < n_threads]_vars

C16_Witness ==
    /\ Cardinality(Busy) = n_threads
    /\ n_threads = MaxThreads
    /\ Cardinality(Sleeping) = n_threads
    /\ queue # <<>>

(***************************************************************************)
(* The name of a repository, told without the code's operations.            *)
(***************************************************************************)
Started(t) == status[t] # "queued"

\* What follows the last "/" of s.
FinalSegment(s) ==
    LET slashes == {i \in DOMAIN s : s[i] = "/"}
        last == IF slashes = {} THEN 0
                ELSE CHOOSE i \in slashes : \A j \in slashes : j <= i
    IN SubSeq(s, last + 1, Len(s))

EndsWithMarker(s) == Len(s) >= Len(Git) /\ SubSeq(s, Len(s) - Len(Git) + 1, Len(s)) = Git

\* s without a marker at its end.
TrailingMarkerRemoved(s) ==
    IF EndsWithMarker(s) THEN SubSeq(s, 1, Len(s) - Len(Git)) ELSE s

\* The i-th character of s lies in an occurrence of the marker.
InMarker(s, i) ==
    \E j \in 1..(Len(s) - Len(Git) + 1) :
        /\ j <= i
        /\ i < j + Len(Git)
        /\ SubSeq(s, j, j + Len(Git) - 1) = Git

RECURSIVE KeptFrom(_, _)
KeptFrom(s, i) ==
    IF i > Len(s) THEN <<>>
    ELSE (IF InMarker(s, i) THEN <<>> ELSE <<s[i]>>) \o KeptFrom(s, i + 1)

\* s without the characters of any occurrence of the marker.
EveryMarkerRemoved(s) == KeptFrom(s, 1)

\* C17: the name clone_repo derives from a URL is the URL's final path
\* segment with only a marker at its end removed: every other character of
\* the segment is kept, and a segment that does not end with the marker is
\* kept whole.
C17_OnlyTrailingMarkerRemoved ==
    \A t \in Tasks :
        Started(t) => repo_name[t] = TrailingMarkerRemoved(FinalSegment(repos[t]))

C19_AtomicPrecondition ==
    /\ pc \in {"dispatch", "await", "returned"} => madeBy = "self"
    /\ madeBy = "other" =>
          /\ submitted = <<>>
          /\ \A t \in Tasks : attempts[t] = 0

\* C20: with fair threads and git clones that end, a call of clone_repos on
\* a directory that does not exist returns, whatever the git clones answer:
\* by then every task has ended after at most its budget of attempts; and
\* every task that was submitted ends.
Done == pc = "returned" /\ \A t \in Tasks : Finished(t) /\ attempts[t] <= budget[t]

C20_EventuallyDone ==
    /\ ~dirAtCall ~> Done
    /\ \A t \in 1..MaxRepos :
          (t \in Range(submitted)) ~> (t \in Tasks /\ Finished(t) /\ attempts[t] <= budget[t])

C20_Witness ==
    /\ Done
    /\ ~dirAtCall
    /\ Len(repos) = MaxRepos
    /\ \E t \in Tasks : status[t] = "failed" /\ attempts[t] = budget[t]
    /\ \E t \in Tasks : status[t] = "succeeded" /\ attempts[t] = 1
    /\ \E t \in Tasks : status[t] = "succeeded" /\ attempts[t] = budget[t]

====
